---- MODULE Spec2Model ----
(***************************************************************************)
(* OnlyScrews: the request middleware (middleware.ts), the framework       *)
(* header configuration (next.config.ts) and the API caching helpers       *)
(* (lib/caching), as state machines.                                       *)
(*                                                                         *)
(*   Spec                one request through the configured header rules   *)
(*                       and the middleware                                *)
(*   SpecCachedResponse  calls of createCachedResponse                     *)
(*   SpecConditional     calls of checkConditionalRequest                  *)
(*   SpecWithCache       calls of withCache, from the call to the          *)
(*                       settling of the promise it returns                *)
(*   SpecNavbar          one mounted Navbar and the events it receives     *)
(***************************************************************************)
EXTENDS Integers, Sequences, FiniteSets, TLC

VARIABLES
    phase,          \* "idle" | "received" | "headers" | "done"
    pathname,       \* request.nextUrl.pathname of the request in flight
    cfgSets,        \* Cache-Control values the header rules set, in rule order
    mwRan,          \* whether the matcher let the middleware run
    mwStatus,       \* status of the response the middleware returned (0: none)
    mwLocation,     \* pathname of the redirect target ("" when none)
    mwSets,         \* values of response.headers.set('Cache-Control', ..), in order,
                    \* on the response the middleware returned
    cached,         \* the latest call of createCachedResponse: its arguments and outcome
    cachedBefore,   \* the payload and the ETag of the call before it
    cond,           \* the latest call of checkConditionalRequest: the request's
                    \* headers, lastModified and the result
    condBefore,     \* the call of checkConditionalRequest before it
    wcPc,           \* withCache: "idle" | "await" | "done"
    wcPolicy,       \* withCache: the policy argument
    fetchCalls,     \* how many times this call of withCache has invoked fetchFn
    fetchSettled,   \* what fetchFn came to: a value or an error
    wcOutcome,      \* how withCache's promise settled: the pair it returned or
                    \* the error it threw
    consoleErrors,  \* the console.error lines of this call
    open,           \* Navbar: useState(false), the mobile menu flag
    isMounted,      \* Navbar: useState(false), set by the mount effect
    view,           \* Navbar: what the latest render returned
    clicks,         \* how many times the menu button has been activated
    route           \* the path the page is at

requestVars == <<phase, pathname, cfgSets, mwRan, mwStatus, mwLocation, mwSets>>
cachedVars  == <<cached, cachedBefore>>
condVars    == <<cond, condBefore>>
wcVars      == <<wcPc, wcPolicy, fetchCalls, fetchSettled, wcOutcome, consoleErrors>>
navVars     == <<open, isMounted, view, clicks, route>>
helperVars  == <<cachedVars, condVars, wcVars, navVars>>

vars == <<requestVars, helperVars>>

-----------------------------------------------------------------------------
(* Bounds of the model *)

\* a request path is the concatenation of at most MaxChunks chunks
MaxChunks == 3

\* the numbers of a payload are 0..MaxNum
MaxNum == 1

\* the arrays of a payload have at most MaxArr elements
MaxArr == 1

\* the menu button is activated at most MaxClicks times
MaxClicks == 30

-----------------------------------------------------------------------------
(* JavaScript string primitives, on TLA+ strings *)

\* String.prototype.startsWith
StartsWith(s, p) ==
    /\ Len(s) >= Len(p)
    /\ SubSeq(s, 1, Len(p)) = p

\* String.prototype.endsWith
EndsWith(s, p) ==
    /\ Len(s) >= Len(p)
    /\ SubSeq(s, Len(s) - Len(p) + 1, Len(s)) = p

\* the (1-based) positions at which pat occurs in s
Occurrences(s, pat) ==
    {i \in 1..(Len(s) - Len(pat) + 1) : SubSeq(s, i, i + Len(pat) - 1) = pat}

\* String.prototype.includes
Includes(s, pat) == Occurrences(s, pat) # {}

Min(S) == CHOOSE m \in S : \A n \in S : m <= n

\* s with the occurrence of pat at position i replaced by rep
ReplaceAt(s, i, pat, rep) ==
    SubSeq(s, 1, i - 1) \o rep \o SubSeq(s, i + Len(pat), Len(s))

\* String.prototype.replace with a string pattern: the FIRST occurrence only
Replace(s, pat, rep) ==
    IF Includes(s, pat) THEN ReplaceAt(s, Min(Occurrences(s, pat)), pat, rep)
    ELSE s

-----------------------------------------------------------------------------
(* The request paths of the model *)

Chunks ==
    { "/", "/self-tapping -screws", "/self-tapping%20-screws",
      "/self-tapping-screws", "/self-tapping", " -screws", "-set",
      "/blog", "/products", "/category", "/api", "/contact",
      "/favicon.ico", "/_next/static", "/logo.png", ".png", "s" }

RECURSIVE Concat(_)
Concat(cs) == IF cs = <<>> THEN "" ELSE Head(cs) \o Concat(Tail(cs))

\* a URL pathname always starts with "/"
Paths ==
    { Concat(cs) : cs \in { c \in UNION { [1..n -> Chunks] : n \in 1..MaxChunks } :
                              StartsWith(c[1], "/") } }

Absent == "(absent)"

Last(seq) == IF seq = <<>> THEN Absent ELSE seq[Len(seq)]

-----------------------------------------------------------------------------
(* middleware.ts *)

VariantSpace   == "/self-tapping -screws"
VariantEncoded == "/self-tapping%20-screws"
Canonical      == "/self-tapping-screws"

MW_HOMEPAGE == "public, s-maxage=60, stale-while-revalidate=300, stale-if-error=86400"
MW_BLOG     == "public, s-maxage=3600, stale-while-revalidate=86400, stale-if-error=604800"
\* a variant of MW_PRODUCT with the category rule's 3600 seconds
MW_PRODUCT_3600 == "public, s-maxage=3600, stale-while-revalidate=86400, stale-if-error=604800"
MW_PRODUCT  == "public, s-maxage=1800, stale-while-revalidate=86400, stale-if-error=604800"

\* the condition of the normalisation branch
NeedsRedirect(p) == Includes(p, VariantSpace) \/ Includes(p, VariantEncoded)

\* a variant of RedirectTarget without the second replace
RedirectTargetSpaceOnly(p) == Replace(p, VariantSpace, Canonical)

\* url.pathname = pathname.replace(..).replace(..)
RedirectTarget(p) ==
    Replace(Replace(p, VariantSpace, Canonical), VariantEncoded, Canonical)

\* a variant of HeaderSets whose blog branch tests includes('/blog')
HeaderSetsBlogAnywhere(p) ==
    LET s1 == IF p = "/" THEN <<MW_HOMEPAGE>> ELSE <<>>
        s2 == IF Includes(p, "/blog") THEN Append(s1, MW_BLOG) ELSE s1
        s3 == IF StartsWith(p, "/products") \/ StartsWith(p, "/category")
              THEN Append(s2, MW_PRODUCT) ELSE s2
    IN  s3

\* the three independent if-statements, each a headers.set on the response
HeaderSets(p) ==
    LET s1 == IF p = "/" THEN <<MW_HOMEPAGE>> ELSE <<>>
        s2 == IF StartsWith(p, "/blog") THEN Append(s1, MW_BLOG) ELSE s1
        s3 == IF StartsWith(p, "/products") \/ StartsWith(p, "/category")
              THEN Append(s2, MW_PRODUCT) ELSE s2
    IN  s3

\* a variant of Middleware that stamps the headers before it normalises, and
\* redirects with the stamped headers
MiddlewareStampsFirst(p) ==
    IF NeedsRedirect(p)
    THEN [status |-> 301, location |-> RedirectTarget(p), sets |-> HeaderSets(p)]
    ELSE [status |-> 200, location |-> "", sets |-> HeaderSets(p)]

\* middleware(request): the response it returns
middleware(p) ==
    IF NeedsRedirect(p)
    THEN [status |-> 301, location |-> RedirectTarget(p), sets |-> <<>>]
    ELSE [status |-> 200, location |-> "", sets |-> HeaderSets(p)]

\* a variant of MatcherMatches whose pattern does not exclude api
MatcherWithoutApi(p) ==
    /\ StartsWith(p, "/")
    /\ LET rest == SubSeq(p, 2, Len(p))
       IN  /\ ~StartsWith(rest, "_next/static")
           /\ ~StartsWith(rest, "_next/image")
           /\ ~(/\ Len(rest) >= 11
                /\ SubSeq(rest, 1, 7) = "favicon"
                /\ SubSeq(rest, 9, 11) = "ico")

\* config.matcher: '/((?!api|_next/static|_next/image|favicon.ico).*)', anchored;
\* the '.' of favicon.ico is the regular expression's any-character
MatcherMatches(p) ==
    /\ StartsWith(p, "/")
    /\ LET rest == SubSeq(p, 2, Len(p))
       IN  /\ ~StartsWith(rest, "api")
           /\ ~StartsWith(rest, "_next/static")
           /\ ~StartsWith(rest, "_next/image")
           /\ ~(/\ Len(rest) >= 11
                /\ SubSeq(rest, 1, 7) = "favicon"
                /\ SubSeq(rest, 9, 11) = "ico")

-----------------------------------------------------------------------------
(* next.config.ts: headers() *)

CFG_HOMEPAGE == "public, s-maxage=60, stale-while-revalidate=300, stale-if-error=86400"
CFG_BLOG     == "public, s-maxage=3600, stale-while-revalidate=86400, stale-if-error=604800"
CFG_PRODUCTS == "public, s-maxage=1800, stale-while-revalidate=86400, stale-if-error=604800"
CFG_CATEGORY == "public, s-maxage=3600, stale-while-revalidate=86400, stale-if-error=604800"
CFG_ASSETS   == "public, max-age=31536000, immutable"
CFG_API      == "private, no-cache, no-store, must-revalidate"

AssetExtensions ==
    {"css", "jpg", "jpeg", "png", "gif", "ico", "webp", "svg", "woff", "woff2", "ttf", "otf"}

\* source '/<prefix>/:path*': the prefix itself or anything below it
UnderPrefix(p, prefix) == p = prefix \/ StartsWith(p, prefix \o "/")

\* source '/:path*(css|jpg|...)': one or more segments, the last one ending in
\* one of the extensions
AssetSource(p) ==
    \E e \in AssetExtensions :
        /\ EndsWith(p, e)
        /\ Len(p) >= Len(e) + 2
        /\ SubSeq(p, Len(p) - Len(e), Len(p) - Len(e)) # "/"

\* the rules of headers(), in order: whether the source matches, and the
\* Cache-Control the rule declares (Absent: the rule declares none)
HeaderRules(p) ==
    << [matches |-> p = "/",                      cacheControl |-> CFG_HOMEPAGE],
       [matches |-> UnderPrefix(p, "/blog"),      cacheControl |-> CFG_BLOG],
       [matches |-> UnderPrefix(p, "/products"),  cacheControl |-> CFG_PRODUCTS],
       [matches |-> UnderPrefix(p, "/category"),  cacheControl |-> CFG_CATEGORY],
       [matches |-> AssetSource(p),               cacheControl |-> CFG_ASSETS],
       [matches |-> UnderPrefix(p, "/api"),       cacheControl |-> CFG_API],
       [matches |-> StartsWith(p, "/"),           cacheControl |-> Absent] >>

RECURSIVE SetsOf(_)
SetsOf(rules) ==
    IF rules = <<>> THEN <<>>
    ELSE LET r == Head(rules)
         IN  (IF r.matches /\ r.cacheControl # Absent THEN <<r.cacheControl>> ELSE <<>>)
             \o SetsOf(Tail(rules))

\* the Cache-Control values the matching rules set, in rule order
ConfigSets(p) == SetsOf(HeaderRules(p))

-----------------------------------------------------------------------------
(* lib/caching: CACHE_POLICIES *)

PolicyNames ==
    {"homepage", "productList", "productDetail", "blog", "category", "images",
     "noCache", "search"}

CACHE_POLICIES ==
    [ homepage |->
        [cacheControl |-> "public, s-maxage=60, stale-while-revalidate=300, stale-if-error=86400",
         description  |-> "Homepage: 1 minute CDN + 5 min stale"],
      productList |->
        [cacheControl |-> "public, s-maxage=1800, stale-while-revalidate=86400, stale-if-error=604800",
         description  |-> "Product lists: 30 min CDN + 24hr stale"],
      productDetail |->
        [cacheControl |-> "public, s-maxage=3600, stale-while-revalidate=86400, stale-if-error=604800",
         description  |-> "Product details: 1hr CDN + 24hr stale"],
      blog |->
        [cacheControl |-> "public, s-maxage=3600, stale-while-revalidate=86400, stale-if-error=604800",
         description  |-> "Blog posts: 1hr CDN + 24hr stale"],
      category |->
        [cacheControl |-> "public, s-maxage=3600, stale-while-revalidate=86400, stale-if-error=604800",
         description  |-> "Categories: 1hr CDN + 24hr stale"],
      images |->
        [cacheControl |-> "public, max-age=31536000, immutable",
         description  |-> "Images: 1 year immutable"],
      noCache |->
        [cacheControl |-> "private, no-cache, no-store, must-revalidate",
         description  |-> "User data: No caching"],
      search |->
        [cacheControl |-> "public, s-maxage=900, stale-while-revalidate=3600",
         description  |-> "Search: 15 min CDN + 1hr stale"] ]

\* an argument that the caller left out
Omitted == "(omitted)"

\* a variant of DefaultPolicy with another default
DefaultPolicyHomepage(policy) == IF policy = Omitted THEN "homepage" ELSE policy

\* the default value of the parameter policy
DefaultPolicy(policy) == IF policy = Omitted THEN "productList" ELSE policy

-----------------------------------------------------------------------------
(* JSON.stringify and Buffer.from(..).toString('base64') *)

Undefined == [t |-> "undefined"]
Null      == [t |-> "null"]
Bool(b)   == [t |-> "bool", b |-> b]
Num(n)    == [t |-> "num", n |-> n]
Str(s)    == [t |-> "str", s |-> s]
Arr(es)   == [t |-> "arr", es |-> es]
\* an object with one property
Obj(k, v) == [t |-> "obj", k |-> k, v |-> v]

DQ == "\""
BS == "\\"

Digit(d) == SubSeq("0123456789", d + 1, d + 1)

RECURSIVE Decimal(_)
Decimal(n) == IF n < 10 THEN Digit(n) ELSE Decimal(n \div 10) \o Digit(n % 10)

\* the quoting of a string: '"' and '\' are escaped
RECURSIVE Escaped(_)
Escaped(s) ==
    IF s = "" THEN ""
    ELSE LET c == SubSeq(s, 1, 1)
         IN  (IF c = DQ \/ c = BS THEN BS \o c ELSE c) \o Escaped(SubSeq(s, 2, Len(s)))

Quote(s) == DQ \o Escaped(s) \o DQ

\* JSON.stringify of a scalar standing in an array or as a property value
ScalarText(v) ==
    CASE v.t = "null" -> "null"
      [] v.t = "bool" -> IF v.b THEN "true" ELSE "false"
      [] v.t = "num"  -> Decimal(v.n)
      [] v.t = "str"  -> Quote(v.s)
      [] v.t = "undefined" -> "null"

RECURSIVE Joined(_)
Joined(es) ==
    IF es = <<>> THEN ""
    ELSE ScalarText(Head(es)) \o (IF Len(es) > 1 THEN "," ELSE "") \o Joined(Tail(es))

\* JSON.stringify(data): a text, or Undefined for undefined
JSONStringify(v) ==
    CASE v.t = "undefined" -> Undefined
      [] v.t = "arr" -> Str("[" \o Joined(v.es) \o "]")
      [] v.t = "obj" -> Str(IF v.v.t = "undefined" THEN "{}"
                            ELSE "{" \o Quote(v.k) \o ":" \o ScalarText(v.v) \o "}")
      [] OTHER -> Str(ScalarText(v))

\* the printable ASCII characters from code 32 to code 95, and from 97 to 126
AsciiLow  == " !\"#$%&'()*+,-./0123456789:;<=>?@ABCDEFGHIJKLMNOPQRSTUVWXYZ[\\]^_"
AsciiHigh == "abcdefghijklmnopqrstuvwxyz{|}~"

\* String.prototype.charCodeAt, for those characters
CharCode(c) ==
    IF \E i \in 1..Len(AsciiLow) : SubSeq(AsciiLow, i, i) = c
    THEN 31 + (CHOOSE i \in 1..Len(AsciiLow) : SubSeq(AsciiLow, i, i) = c)
    ELSE 96 + (CHOOSE i \in 1..Len(AsciiHigh) : SubSeq(AsciiHigh, i, i) = c)

\* Buffer.from(text): the UTF-8 bytes (the texts of the model are ASCII)
BufferFrom(s) == [i \in 1..Len(s) |-> CharCode(SubSeq(s, i, i))]

Base64Alphabet == "ABCDEFGHIJKLMNOPQRSTUVWXYZabcdefghijklmnopqrstuvwxyz0123456789+/"

Base64Char(n) == SubSeq(Base64Alphabet, n + 1, n + 1)

\* buffer.toString('base64')
RECURSIVE Base64(_)
Base64(bytes) ==
    IF bytes = <<>> THEN ""
    ELSE LET b1 == bytes[1]
         IN  IF Len(bytes) = 1
             THEN Base64Char(b1 \div 4) \o Base64Char((b1 % 4) * 16) \o "=="
             ELSE LET b2 == bytes[2]
                  IN  IF Len(bytes) = 2
                      THEN Base64Char(b1 \div 4)
                           \o Base64Char((b1 % 4) * 16 + b2 \div 16)
                           \o Base64Char((b2 % 16) * 4) \o "="
                      ELSE LET b3 == bytes[3]
                           IN  Base64Char(b1 \div 4)
                               \o Base64Char((b1 % 4) * 16 + b2 \div 16)
                               \o Base64Char((b2 % 16) * 4 + b3 \div 64)
                               \o Base64Char(b3 % 64)
                               \o Base64(SubSeq(bytes, 4, Len(bytes)))

\* String.prototype.slice(0, n)
SliceFromStart(s, n) == SubSeq(s, 1, IF Len(s) < n THEN Len(s) ELSE n)

-----------------------------------------------------------------------------
(* lib/caching: createCachedResponse *)

\* a variant of ETagOf without the slice
ETagOfUnsliced(text) == "W/" \o DQ \o Base64(BufferFrom(text)) \o DQ

\* the template literal of the ETag header
ETagOf(text) == "W/" \o DQ \o SliceFromStart(Base64(BufferFrom(text)), 20) \o DQ

\* createCachedResponse(data, policy): the response, or the TypeError that
\* Buffer.from raises for JSON.stringify's undefined
createCachedResponse(data, policy) ==
    LET cachePolicy == CACHE_POLICIES[DefaultPolicy(policy)]
        json == JSONStringify(data)
    IN  IF json = Undefined
        THEN [threw |-> "TypeError"]
        ELSE [threw |-> "",
              status |-> 200,
              body |-> json.s,
              cacheControl |-> cachePolicy.cacheControl,
              contentType |-> "application/json",
              etag |-> ETagOf(json.s)]

\* the payloads of the model
Scalars ==
    {Null, Bool(TRUE), Bool(FALSE)} \cup {Num(n) : n \in 0..MaxNum}
    \cup {Str(s) : s \in {"", "a", "say \"hi\"", "aaaaaaaaaaaaaaaa", "aaaaaaaaaaaaaaab"}}

Elements == {Undefined} \cup {Num(n) : n \in 0..MaxNum}

Payloads ==
    Scalars \cup {Undefined}
    \cup {Obj("a", v) : v \in Scalars \cup {Undefined}}
    \cup {Arr(es) : es \in UNION {[1..n -> Elements] : n \in 0..MaxArr}}

NoCall == [t |-> "none"]

-----------------------------------------------------------------------------
(* new Date(text).getTime() *)

\* A time value is day * 86400000 + ms milliseconds since the epoch, kept as the
\* pair (day, ms) with 0 <= ms < 86400000, or it is NaN.
NaN == [nan |-> TRUE, day |-> 0, ms |-> 0]
TimeValue(day, ms) == [nan |-> FALSE, day |-> day, ms |-> ms]

IsDigits(s) == \A i \in 1..Len(s) : \E d \in 0..9 : SubSeq(s, i, i) = Digit(d)

RECURSIVE ToNumber(_)
ToNumber(s) ==
    IF s = "" THEN 0
    ELSE ToNumber(SubSeq(s, 1, Len(s) - 1)) * 10
         + (CHOOSE d \in 0..9 : SubSeq(s, Len(s), Len(s)) = Digit(d))

IsLeapYear(y) == (y % 4 = 0 /\ y % 100 # 0) \/ y % 400 = 0

DaysInMonth(y, m) ==
    IF m = 2 THEN (IF IsLeapYear(y) THEN 29 ELSE 28)
    ELSE IF m \in {4, 6, 9, 11} THEN 30 ELSE 31

\* the day number of a civil date (days since 1970-01-01)
DayFromCivil(y, m, d) ==
    LET yy  == IF m <= 2 THEN y - 1 ELSE y
        era == yy \div 400
        yoe == yy - era * 400
        mp  == IF m > 2 THEN m - 3 ELSE m + 9
        doy == (153 * mp + 2) \div 5 + d - 1
        doe == yoe * 365 + yoe \div 4 - yoe \div 100 + doy
    IN  era * 146097 + doe - 719468

MakeTime(y, m, d, hh, mm, ss) ==
    IF /\ m \in 1..12 /\ d \in 1..DaysInMonth(y, m)
       /\ hh \in 0..23 /\ mm \in 0..59 /\ ss \in 0..59
    THEN TimeValue(DayFromCivil(y, m, d), ((hh * 60 + mm) * 60 + ss) * 1000)
    ELSE NaN

\* 'YYYY-MM-DD'
IsDateText(s) ==
    /\ Len(s) = 10
    /\ IsDigits(SubSeq(s, 1, 4)) /\ SubSeq(s, 5, 5) = "-"
    /\ IsDigits(SubSeq(s, 6, 7)) /\ SubSeq(s, 8, 8) = "-"
    /\ IsDigits(SubSeq(s, 9, 10))

\* 'HH:MM:SS'
IsClockText(s) ==
    /\ Len(s) = 8
    /\ IsDigits(SubSeq(s, 1, 2)) /\ SubSeq(s, 3, 3) = ":"
    /\ IsDigits(SubSeq(s, 4, 5)) /\ SubSeq(s, 6, 6) = ":"
    /\ IsDigits(SubSeq(s, 7, 8))

MonthNames ==
    <<"Jan", "Feb", "Mar", "Apr", "May", "Jun", "Jul", "Aug", "Sep", "Oct", "Nov", "Dec">>

\* 'Www, DD Mon YYYY HH:MM:SS GMT', the date format of HTTP headers
IsHttpDateText(s) ==
    /\ Len(s) = 29
    /\ SubSeq(s, 4, 5) = ", "
    /\ IsDigits(SubSeq(s, 6, 7)) /\ SubSeq(s, 8, 8) = " "
    /\ \E m \in 1..12 : SubSeq(s, 9, 11) = MonthNames[m]
    /\ SubSeq(s, 12, 12) = " "
    /\ IsDigits(SubSeq(s, 13, 16)) /\ SubSeq(s, 17, 17) = " "
    /\ IsClockText(SubSeq(s, 18, 25))
    /\ SubSeq(s, 26, 29) = " GMT"

\* Date.parse: the simplified ISO 8601 format in UTC, with or without the
\* time, and the HTTP date format; any other text of the model is NaN
DateParse(s) ==
    IF IsDateText(s)
    THEN MakeTime(ToNumber(SubSeq(s, 1, 4)), ToNumber(SubSeq(s, 6, 7)),
                  ToNumber(SubSeq(s, 9, 10)), 0, 0, 0)
    ELSE IF /\ Len(s) = 20 /\ IsDateText(SubSeq(s, 1, 10)) /\ SubSeq(s, 11, 11) = "T"
            /\ IsClockText(SubSeq(s, 12, 19)) /\ SubSeq(s, 20, 20) = "Z"
    THEN MakeTime(ToNumber(SubSeq(s, 1, 4)), ToNumber(SubSeq(s, 6, 7)),
                  ToNumber(SubSeq(s, 9, 10)), ToNumber(SubSeq(s, 12, 13)),
                  ToNumber(SubSeq(s, 15, 16)), ToNumber(SubSeq(s, 18, 19)))
    ELSE IF IsHttpDateText(s)
    THEN MakeTime(ToNumber(SubSeq(s, 13, 16)),
                  CHOOSE m \in 1..12 : SubSeq(s, 9, 11) = MonthNames[m],
                  ToNumber(SubSeq(s, 6, 7)), ToNumber(SubSeq(s, 18, 19)),
                  ToNumber(SubSeq(s, 21, 22)), ToNumber(SubSeq(s, 24, 25)))
    ELSE NaN

\* a variant of GreaterOrEqual: a > b
StrictlyGreater(a, b) ==
    /\ ~a.nan
    /\ ~b.nan
    /\ (a.day > b.day \/ (a.day = b.day /\ a.ms > b.ms))

\* a variant of GreaterOrEqual: !(a < b), which is true of NaN
NotLess(a, b) ==
    \/ a.nan
    \/ b.nan
    \/ (a.day > b.day \/ (a.day = b.day /\ a.ms >= b.ms))

\* a >= b on numbers: false when either is NaN
GreaterOrEqual(a, b) ==
    /\ ~a.nan
    /\ ~b.nan
    /\ (a.day > b.day \/ (a.day = b.day /\ a.ms >= b.ms))

-----------------------------------------------------------------------------
(* lib/caching: checkConditionalRequest *)

\* a value is truthy unless it is null or the empty string
Truthy(header) == header # Absent /\ header # ""

NullResult  == [kind |-> "null", status |-> 0, body |-> Absent]
NotModified == [kind |-> "response", status |-> 304, body |-> Absent]

\* a variant of checkConditionalRequest that answers 304 to any request
\* carrying if-none-match
checkConditionalRequestOnETag(ifNoneMatch, ifModifiedSince, lastModified) ==
    IF Truthy(ifNoneMatch)
    THEN [kind |-> "response", status |-> 304, body |-> Absent]
    ELSE IF Truthy(ifModifiedSince)
         THEN IF ~DateParse(ifModifiedSince).nan /\ ~DateParse(lastModified).nan
                 /\ (\/ DateParse(ifModifiedSince).day > DateParse(lastModified).day
                     \/ /\ DateParse(ifModifiedSince).day = DateParse(lastModified).day
                        /\ DateParse(ifModifiedSince).ms >= DateParse(lastModified).ms)
              THEN [kind |-> "response", status |-> 304, body |-> Absent]
              ELSE [kind |-> "null", status |-> 0, body |-> Absent]
         ELSE [kind |-> "null", status |-> 0, body |-> Absent]

\* checkConditionalRequest(request, lastModified), the request given by the
\* values headers.get returns (Absent: null)
checkConditionalRequest(ifNoneMatch, ifModifiedSince, lastModified) ==
    IF Truthy(ifModifiedSince)
    THEN LET clientDate == DateParse(ifModifiedSince)
             serverDate == DateParse(lastModified)
         IN  IF GreaterOrEqual(clientDate, serverDate) THEN NotModified ELSE NullResult
    ELSE NullResult

\* the header values and the lastModified arguments of the model
IfModifiedSinceValues ==
    { Absent, "", "garbage", "yesterday", "2024-13-01T00:00:00Z",
      "2023-12-31T00:00:00Z", "2023-12-31T23:59:59Z", "2024-01-01T00:00:00Z",
      "2024-01-02T00:00:00Z", "2024-01-01", "2024-03-01T00:00:00Z",
      "Sun, 31 Dec 2023 23:59:59 GMT", "Mon, 01 Jan 2024 00:00:00 GMT",
      "Thu, 29 Feb 2024 12:00:00 GMT" }

IfNoneMatchValues == { Absent, "*", "W/\"eyJhIjoxfQ==\"" }

LastModifiedValues ==
    { "2023-12-31T23:59:59Z", "2024-01-01T00:00:00Z", "2024-01-01",
      "2024-03-01T00:00:00Z", "garbage" }

-----------------------------------------------------------------------------
(* lib/caching: withCache *)

Pending == [kind |-> "pending"]
Value(v) == [kind |-> "value", value |-> v]
Error(e) == [kind |-> "error", error |-> e]

\* return [data, CACHE_POLICIES[policy]]
WithCacheReturn(data, policy) ==
    [kind |-> "returned", pair |-> <<data, CACHE_POLICIES[DefaultPolicy(policy)]>>]

\* a variant of WithCacheCatch that throws a new error in place of the caught one
WithCacheCatchWrapped(error, policy) ==
    [outcome |-> [kind |-> "thrown", error |-> "Cache fetch error"],
     logged  |-> <<<<"Cache fetch error:", error>>>>]

\* the catch block: console.error('Cache fetch error:', error); throw error
WithCacheCatch(error, policy) ==
    [outcome |-> [kind |-> "thrown", error |-> error],
     logged  |-> <<<<"Cache fetch error:", error>>>>]

\* what fetchFn resolves with, and what it fails with
FetchValues == Scalars \cup {Undefined}
FetchErrors == {"ECONNRESET", "TimeoutError"}

-----------------------------------------------------------------------------
(* components/Navbar.tsx *)

\* the links of the desktop row and of the mobile panel
NavLinks == {"/products", "/about", "/contact"}

\* the brand link
BrandLink == "/"

\* a variant of Toggle: setOpen(true)
ToggleOpens(seen) == TRUE

\* onClick={() => setOpen(!open)}, open being the value the render closed over
Toggle(seen) == ~seen

\* what the component returns for a value of open: the value its handlers close
\* over, the button's attributes, and whether the mobile panel is there
Render(o) ==
    [open         |-> o,
     ariaLabel    |-> IF o THEN "Close menu" ELSE "Open menu",
     ariaExpanded |-> o,
     panel        |-> o]

-----------------------------------------------------------------------------
(* One request *)

\* a header set twice keeps the later value
ConfigCacheControl     == Last(cfgSets)
MiddlewareCacheControl == Last(mwSets)

\* the middleware's headers are applied after the configured ones
FinalCacheControl ==
    IF MiddlewareCacheControl # Absent THEN MiddlewareCacheControl
    ELSE ConfigCacheControl

Init ==
    /\ phase = "idle"
    /\ pathname = ""
    /\ cfgSets = <<>>
    /\ mwRan = FALSE
    /\ mwStatus = 0
    /\ mwLocation = ""
    /\ mwSets = <<>>
    /\ cached = NoCall
    /\ cachedBefore = NoCall
    /\ cond = NoCall
    /\ condBefore = NoCall
    /\ wcPc = "idle"
    /\ wcPolicy = Omitted
    /\ fetchCalls = 0
    /\ fetchSettled = Pending
    /\ wcOutcome = Pending
    /\ consoleErrors = <<>>
    /\ open = FALSE
    /\ isMounted = FALSE
    /\ view = Render(FALSE)
    /\ clicks = 0
    /\ route = BrandLink

ReceiveRequest ==
    /\ phase = "idle"
    /\ \E p \in Paths : pathname' = p
    /\ phase' = "received"
    /\ UNCHANGED <<cfgSets, mwRan, mwStatus, mwLocation, mwSets>>
    /\ UNCHANGED helperVars

ApplyConfigHeaders ==
    /\ phase = "received"
    /\ cfgSets' = ConfigSets(pathname)
    /\ phase' = "headers"
    /\ UNCHANGED <<pathname, mwRan, mwStatus, mwLocation, mwSets>>
    /\ UNCHANGED helperVars

RunMiddleware ==
    /\ phase = "headers"
    /\ MatcherMatches(pathname)
    /\ LET r == middleware(pathname)
       IN  /\ mwStatus' = r.status
           /\ mwLocation' = r.location
           /\ mwSets' = r.sets
    /\ mwRan' = TRUE
    /\ phase' = "done"
    /\ UNCHANGED <<pathname, cfgSets>>
    /\ UNCHANGED helperVars

SkipMiddleware ==
    /\ phase = "headers"
    /\ ~MatcherMatches(pathname)
    /\ phase' = "done"
    /\ UNCHANGED <<pathname, cfgSets, mwRan, mwStatus, mwLocation, mwSets>>
    /\ UNCHANGED helperVars

FinishRequest ==
    /\ phase = "done"
    /\ phase' = "idle"
    /\ pathname' = ""
    /\ cfgSets' = <<>>
    /\ mwRan' = FALSE
    /\ mwStatus' = 0
    /\ mwLocation' = ""
    /\ mwSets' = <<>>
    /\ UNCHANGED helperVars

Next ==
    \/ ReceiveRequest
    \/ ApplyConfigHeaders
    \/ RunMiddleware
    \/ SkipMiddleware
    \/ FinishRequest

Spec == Init /\ [][Next]_vars

-----------------------------------------------------------------------------
(* Calls of createCachedResponse *)

\* the model keeps two calls to compare, and then forgets them
CallCreateCachedResponse ==
    /\ cachedBefore = NoCall
    /\ \E data \in Payloads, policy \in PolicyNames \cup {Omitted} :
           cached' = [t |-> "call", data |-> data, policy |-> policy,
                      result |-> createCachedResponse(data, policy)]
    /\ cachedBefore' =
           IF cached = NoCall \/ cached.result.threw # "" THEN NoCall
           ELSE [t |-> "call", data |-> cached.data, etag |-> cached.result.etag]
    /\ UNCHANGED <<requestVars, condVars, wcVars, navVars>>

ForgetCalls ==
    /\ cachedBefore # NoCall
    /\ cached' = NoCall
    /\ cachedBefore' = NoCall
    /\ UNCHANGED <<requestVars, condVars, wcVars, navVars>>

NextCachedResponse ==
    \/ CallCreateCachedResponse
    \/ ForgetCalls

SpecCachedResponse == Init /\ [][NextCachedResponse]_vars

-----------------------------------------------------------------------------
(* Calls of checkConditionalRequest *)

CallCheckConditionalRequest ==
    /\ cond = NoCall
    /\ \E inm \in IfNoneMatchValues, ims \in IfModifiedSinceValues,
          lm \in LastModifiedValues :
           cond' = [t |-> "call", ifNoneMatch |-> inm, ifModifiedSince |-> ims,
                    lastModified |-> lm,
                    result |-> checkConditionalRequest(inm, ims, lm)]
    /\ UNCHANGED condBefore
    /\ UNCHANGED <<requestVars, cachedVars, wcVars, navVars>>

\* the caller goes on (304 sent, or the full response built); the call is
\* remembered as the one before the next
ConditionalRequestDone ==
    /\ cond # NoCall
    /\ cond' = NoCall
    /\ condBefore' = cond
    /\ UNCHANGED <<requestVars, cachedVars, wcVars, navVars>>

NextConditional ==
    \/ CallCheckConditionalRequest
    \/ ConditionalRequestDone

SpecConditional == Init /\ [][NextConditional]_vars

-----------------------------------------------------------------------------
(* Calls of withCache *)

\* withCache(fetchFn, policy) up to its await: fetchFn is invoked and returns
\* a promise
CallWithCache ==
    /\ wcPc = "idle"
    /\ \E policy \in PolicyNames \cup {Omitted} : wcPolicy' = policy
    /\ fetchCalls' = 1
    /\ fetchSettled' = Pending
    /\ wcOutcome' = Pending
    /\ consoleErrors' = <<>>
    /\ wcPc' = "await"
    /\ UNCHANGED <<requestVars, cachedVars, condVars, navVars>>

\* withCache(fetchFn, policy) when fetchFn throws before it returns a promise:
\* the catch block runs in the same turn
CallWithCacheFetchThrows ==
    /\ wcPc = "idle"
    /\ \E policy \in PolicyNames \cup {Omitted}, e \in FetchErrors :
           LET c == WithCacheCatch(e, policy)
           IN  /\ wcPolicy' = policy
               /\ fetchSettled' = Error(e)
               /\ wcOutcome' = c.outcome
               /\ consoleErrors' = c.logged
    /\ fetchCalls' = 1
    /\ wcPc' = "done"
    /\ UNCHANGED <<requestVars, cachedVars, condVars, navVars>>

\* the awaited promise is fulfilled: the function returns the pair
FetchResolves ==
    /\ wcPc = "await"
    /\ \E v \in FetchValues :
           /\ fetchSettled' = Value(v)
           /\ wcOutcome' = WithCacheReturn(v, wcPolicy)
    /\ wcPc' = "done"
    /\ UNCHANGED <<wcPolicy, fetchCalls, consoleErrors>>
    /\ UNCHANGED <<requestVars, cachedVars, condVars, navVars>>

\* the awaited promise is rejected: the catch block runs
FetchRejects ==
    /\ wcPc = "await"
    /\ \E e \in FetchErrors :
           LET c == WithCacheCatch(e, wcPolicy)
           IN  /\ fetchSettled' = Error(e)
               /\ wcOutcome' = c.outcome
               /\ consoleErrors' = consoleErrors \o c.logged
    /\ wcPc' = "done"
    /\ UNCHANGED <<wcPolicy, fetchCalls>>
    /\ UNCHANGED <<requestVars, cachedVars, condVars, navVars>>

\* the caller has taken the outcome
WithCacheSettled ==
    /\ wcPc = "done"
    /\ wcPc' = "idle"
    /\ wcPolicy' = Omitted
    /\ fetchCalls' = 0
    /\ fetchSettled' = Pending
    /\ wcOutcome' = Pending
    /\ consoleErrors' = <<>>
    /\ UNCHANGED <<requestVars, cachedVars, condVars, navVars>>

NextWithCache ==
    \/ CallWithCache
    \/ CallWithCacheFetchThrows
    \/ FetchResolves
    \/ FetchRejects
    \/ WithCacheSettled

SpecWithCache == Init /\ [][NextWithCache]_vars

-----------------------------------------------------------------------------
(* The Navbar *)

\* useEffect(() => { setIsMounted(true) }, []): once, after the first render;
\* the component renders again
MountEffect ==
    /\ ~isMounted
    /\ isMounted' = TRUE
    /\ view' = Render(open)
    /\ UNCHANGED <<open, clicks, route>>
    /\ UNCHANGED <<requestVars, cachedVars, condVars, wcVars>>

\* the menu button is activated: its handler sets the state and the component
\* renders again before the next event
ActivateMenuButton ==
    /\ isMounted
    /\ clicks < MaxClicks
    /\ open' = Toggle(view.open)
    /\ view' = Render(open')
    /\ clicks' = clicks + 1
    /\ UNCHANGED <<isMounted, route>>
    /\ UNCHANGED <<requestVars, cachedVars, condVars, wcVars>>

\* a link of the desktop row, or the brand link, is activated: no handler of
\* the component runs
ActivateLink ==
    /\ isMounted
    /\ \E href \in {BrandLink} \cup NavLinks : route' = href
    /\ UNCHANGED <<open, isMounted, view, clicks>>
    /\ UNCHANGED <<requestVars, cachedVars, condVars, wcVars>>

\* a link of the mobile panel is activated: the panel has to be there
ActivatePanelLink ==
    /\ isMounted
    /\ view.panel
    /\ \E href \in NavLinks : route' = href
    /\ UNCHANGED <<open, isMounted, view, clicks>>
    /\ UNCHANGED <<requestVars, cachedVars, condVars, wcVars>>

NextNavbar ==
    \/ MountEffect
    \/ ActivateMenuButton
    \/ ActivateLink
    \/ ActivatePanelLink

SpecNavbar == Init /\ [][NextNavbar]_vars

-----------------------------------------------------------------------------
(* Claims about the middleware and the configured headers *)

\* the positions at which the text v stands in p, by decomposition of p
StandsAt(p, v) ==
    {i \in 0..Len(p) : p = SubSeq(p, 1, i) \o v \o SubSeq(p, i + Len(v) + 1, Len(p))}

ContainsVariant(p) == StandsAt(p, VariantSpace) # {} \/ StandsAt(p, VariantEncoded) # {}

\* the paths got from p by putting the canonical text in place of one v
Substituted(p, v) ==
    {SubSeq(p, 1, i) \o Canonical \o SubSeq(p, i + Len(v) + 1, Len(p)) : i \in StandsAt(p, v)}

\* p with the variant it contains replaced (one of each kind it contains)
Corrected(p) ==
    IF StandsAt(p, VariantSpace) # {} /\ StandsAt(p, VariantEncoded) # {}
    THEN UNION {Substituted(u, VariantEncoded) : u \in Substituted(p, VariantSpace)}
    ELSE Substituted(p, VariantSpace) \cup Substituted(p, VariantEncoded)

Handled == phase = "done" /\ mwRan

\* the directives as the design states them
HomepageDirective == "public, s-maxage=60, stale-while-revalidate=300, stale-if-error=86400"
Directive3600 == "public, s-maxage=3600, stale-while-revalidate=86400, stale-if-error=604800"
Directive1800 == "public, s-maxage=1800, stale-while-revalidate=86400, stale-if-error=604800"
NoCacheDirective == "private, no-cache, no-store, must-revalidate"

\* C1: for every path the middleware handles, it answers 301 if and only if the
\* path contains '/self-tapping -screws' or '/self-tapping%20-screws'; the
\* redirect's target is the path with that text replaced by
\* '/self-tapping-screws'; a path with neither is passed through.
C1_RedirectIffVariant ==
    Handled =>
        /\ (mwStatus = 301) <=> ContainsVariant(pathname)
        /\ mwStatus = 301 => mwLocation \in Corrected(pathname)
        /\ ~ContainsVariant(pathname) => mwStatus = 200 /\ mwLocation = ""

C1_Witness ==
    /\ Handled
    /\ pathname = "/self-tapping%20-screws-set"
    /\ mwStatus = 301
    /\ mwLocation = "/self-tapping-screws-set"

\* the directive a first-match chain over the route classes gives
FirstMatch(p) ==
    IF p = "/" THEN HomepageDirective
    ELSE IF StartsWith(p, "/blog") THEN Directive3600
    ELSE IF StartsWith(p, "/products") \/ StartsWith(p, "/category") THEN Directive1800
    ELSE Absent

\* C2: for every path that is not redirected the middleware sets Cache-Control
\* to the homepage directive exactly when the path is '/', to the 3600-second
\* directive exactly when it starts with '/blog', to the 1800-second directive
\* exactly when it starts with '/products' or '/category', and sets none
\* otherwise; never more than one branch sets it, so the independent ifs give
\* what a first-match chain gives.
C2_OneBranchPerPath ==
    (Handled /\ mwStatus # 301) =>
        /\ Len(mwSets) <= 1
        /\ MiddlewareCacheControl = FirstMatch(pathname)
        /\ (MiddlewareCacheControl = HomepageDirective) <=> (pathname = "/")
        /\ (MiddlewareCacheControl = Directive3600) <=> StartsWith(pathname, "/blog")
        /\ (MiddlewareCacheControl = Directive1800) <=>
               (StartsWith(pathname, "/products") \/ StartsWith(pathname, "/category"))

C2_Witness ==
    /\ Handled
    /\ pathname = "/products/blog"
    /\ mwStatus = 200
    /\ mwSets = <<Directive1800>>

\* C3: the normalisation pre-empts the header stamping: a 301 the middleware
\* returns carries no Cache-Control set by the middleware, also when the path
\* starts with '/blog', '/products' or '/category'.
C3_RedirectCarriesNoCacheControl ==
    (phase = "done" /\ mwStatus = 301) =>
        /\ mwSets = <<>>
        /\ MiddlewareCacheControl = Absent

C3_Witness ==
    /\ phase = "done"
    /\ mwStatus = 301
    /\ StartsWith(pathname, "/blog")
    /\ HeaderSets(pathname) # <<>>
    /\ mwSets = <<>>

BothAssign ==
    /\ phase = "done"
    /\ ConfigCacheControl # Absent
    /\ MiddlewareCacheControl # Absent

-----------------------------------------------------------------------------
(* Claims about the redirect's target *)

\* C13: the target of every 301 redirect of the middleware is a corrected
\* URL: its path contains neither '/self-tapping -screws' nor
\* '/self-tapping%20-screws', whatever the request path (a variant more than
\* once, both variants), so the target is not itself redirected.
C13_TargetHasNoVariant ==
    (Handled /\ mwStatus = 301) =>
        /\ StandsAt(mwLocation, "/self-tapping -screws") = {}
        /\ StandsAt(mwLocation, "/self-tapping%20-screws") = {}
        /\ middleware(mwLocation).status # 301

-----------------------------------------------------------------------------
(* Claims about createCachedResponse *)

\* the policy table as the design states it
DesignDirective ==
    [ homepage      |-> "public, s-maxage=60, stale-while-revalidate=300, stale-if-error=86400",
      productList   |-> "public, s-maxage=1800, stale-while-revalidate=86400, stale-if-error=604800",
      productDetail |-> "public, s-maxage=3600, stale-while-revalidate=86400, stale-if-error=604800",
      blog          |-> "public, s-maxage=3600, stale-while-revalidate=86400, stale-if-error=604800",
      category      |-> "public, s-maxage=3600, stale-while-revalidate=86400, stale-if-error=604800",
      images        |-> "public, max-age=31536000, immutable",
      noCache       |-> "private, no-cache, no-store, must-revalidate",
      search        |-> "public, s-maxage=900, stale-while-revalidate=3600" ]

Serializable(data) == data.t # "undefined"

Answered == cached # NoCall /\ Serializable(cached.data)

\* C6: for each of the eight policy names createCachedResponse(data, name)
\* returns a status-200 JSON response whose Cache-Control is that policy's
\* directive, and a call without a policy name returns the productList
\* directive.
C6_PolicyDirectiveAttached ==
    Answered =>
        /\ cached.result.threw = ""
        /\ cached.result.status = 200
        /\ cached.result.contentType = "application/json"
        /\ cached.policy \in PolicyNames =>
               cached.result.cacheControl = DesignDirective[cached.policy]
        /\ cached.policy = Omitted =>
               cached.result.cacheControl = DesignDirective["productList"]

C6_Witness ==
    /\ Answered
    /\ cached.policy = "images"
    /\ cached.data = Obj("a", Num(1))
    /\ cached.result.status = 200
    /\ cached.result.body = "{\"a\":1}"
    /\ cached.result.cacheControl = "public, max-age=31536000, immutable"

\* the value (0..63) a base64 character stands for
Base64Value(c) == (CHOOSE i \in 1..Len(Base64Alphabet) : SubSeq(Base64Alphabet, i, i) = c) - 1

\* the bytes a base64 text stands for
RECURSIVE Base64Decode(_)
Base64Decode(s) ==
    IF Len(s) < 4 THEN <<>>
    ELSE LET c(i) == SubSeq(s, i, i)
             v1 == Base64Value(c(1))
             v2 == Base64Value(c(2))
             rest == Base64Decode(SubSeq(s, 5, Len(s)))
         IN  IF c(3) = "=" THEN <<v1 * 4 + v2 \div 16>>
             ELSE LET v3 == Base64Value(c(3))
                  IN  IF c(4) = "="
                      THEN <<v1 * 4 + v2 \div 16, (v2 % 16) * 16 + v3 \div 4>>
                      ELSE <<v1 * 4 + v2 \div 16, (v2 % 16) * 16 + v3 \div 4,
                             (v3 % 4) * 64 + Base64Value(c(4))>> \o rest

\* what stands between 'W/"' and '"'
Inner(etag) == SubSeq(etag, 4, Len(etag) - 1)

\* C7: the ETag is a function of the payload alone: two calls with the same data
\* give the same ETag whatever the policy, and the ETag is 'W/"', the first 20
\* characters of the base64 encoding of the JSON text of the data, and '"'.
C7_ETagOfPayloadAlone ==
    Answered =>
        LET etag == cached.result.etag
            text == JSONStringify(cached.data).s
            n    == IF Len(text) < 15 THEN Len(text) ELSE 15
        IN  /\ StartsWith(etag, "W/" \o DQ)
            /\ EndsWith(etag, DQ)
            /\ Len(Inner(etag)) = 4 * ((n + 2) \div 3)
            /\ Base64Decode(Inner(etag)) = BufferFrom(SubSeq(text, 1, n))
            /\ (cachedBefore # NoCall /\ cachedBefore.data = cached.data) =>
                   cachedBefore.etag = etag

C7_Witness ==
    /\ Answered
    /\ cached.data = Obj("a", Num(1))
    /\ cached.policy = "noCache"
    /\ cached.result.etag = "W/\"eyJhIjoxfQ==\""
    /\ cachedBefore # NoCall
    /\ cachedBefore.data = cached.data
    /\ cachedBefore.etag = cached.result.etag

\* C14: the ETag identifies the content of the payload: two payloads whose
\* JSON serializations differ never receive the same ETag.
C14_DifferentJSONDifferentETag ==
    (/\ Answered
     /\ cachedBefore # NoCall
     /\ JSONStringify(cachedBefore.data).s # JSONStringify(cached.data).s)
    => cachedBefore.etag # cached.result.etag

-----------------------------------------------------------------------------
(* Claims about checkConditionalRequest *)

\* the instant each timestamp text of the model names: year, month, day, hour,
\* minute, second (UTC)
Instant ==
    ( "2023-12-31T00:00:00Z" :> <<2023, 12, 31, 0, 0, 0>> )
 @@ ( "2023-12-31T23:59:59Z" :> <<2023, 12, 31, 23, 59, 59>> )
 @@ ( "2024-01-01T00:00:00Z" :> <<2024, 1, 1, 0, 0, 0>> )
 @@ ( "2024-01-02T00:00:00Z" :> <<2024, 1, 2, 0, 0, 0>> )
 @@ ( "2024-01-01" :> <<2024, 1, 1, 0, 0, 0>> )
 @@ ( "2024-03-01T00:00:00Z" :> <<2024, 3, 1, 0, 0, 0>> )
 @@ ( "Sun, 31 Dec 2023 23:59:59 GMT" :> <<2023, 12, 31, 23, 59, 59>> )
 @@ ( "Mon, 01 Jan 2024 00:00:00 GMT" :> <<2024, 1, 1, 0, 0, 0>> )
 @@ ( "Thu, 29 Feb 2024 12:00:00 GMT" :> <<2024, 2, 29, 12, 0, 0>> )

IsTimestamp(text) == text \in DOMAIN Instant

\* instant a is not before instant b
RECURSIVE NotBefore(_, _)
NotBefore(a, b) ==
    IF a = <<>> THEN TRUE
    ELSE IF Head(a) # Head(b) THEN Head(a) > Head(b)
    ELSE NotBefore(Tail(a), Tail(b))

Checked == cond # NoCall

\* C8: checkConditionalRequest returns a 304 with an empty body when the request
\* has an if-modified-since header whose timestamp is later than or equal to
\* lastModified, and the absent result when the header is missing or its
\* timestamp is earlier than lastModified.
C8_NotModifiedWhenNotOlder ==
    (Checked /\ IsTimestamp(cond.lastModified)) =>
        /\ (/\ IsTimestamp(cond.ifModifiedSince)
            /\ NotBefore(Instant[cond.ifModifiedSince], Instant[cond.lastModified]))
           => (cond.result.kind = "response" /\ cond.result.status = 304
                                              /\ cond.result.body = Absent)
        /\ (\/ cond.ifModifiedSince = Absent
            \/ /\ IsTimestamp(cond.ifModifiedSince)
               /\ ~NotBefore(Instant[cond.ifModifiedSince], Instant[cond.lastModified]))
           => cond.result.kind = "null"

C8_Witness ==
    /\ Checked
    /\ cond.ifModifiedSince = "Mon, 01 Jan 2024 00:00:00 GMT"
    /\ cond.lastModified = "2024-01-01T00:00:00Z"
    /\ cond.result.status = 304

\* C9: when the if-modified-since value cannot be parsed as a timestamp,
\* checkConditionalRequest neither fails nor returns 304: it returns the absent
\* result.
C9_UnparseableFallsThrough ==
    (Checked /\ cond.ifModifiedSince # Absent /\ ~IsTimestamp(cond.ifModifiedSince)) =>
        /\ cond.result = NullResult
        /\ cond.result.status # 304

C9_Witness ==
    /\ Checked
    /\ cond.ifModifiedSince = "2024-13-01T00:00:00Z"
    /\ IsTimestamp(cond.lastModified)
    /\ cond.result.kind = "null"

-----------------------------------------------------------------------------
(* Claims about withCache *)

\* C10: withCache(fetchFn, policy) invokes fetchFn exactly once per call; when
\* fetchFn succeeds it returns the pair of the fetched value and the policy
\* object of the given name (productList when omitted); when fetchFn fails it
\* logs the error and raises the same error, without retrying and without
\* returning a value.
C10_FetchOnceThenPairOrSameError ==
    /\ fetchCalls <= 1
    /\ wcPc \in {"await", "done"} => fetchCalls = 1
    /\ wcPc = "await" => wcOutcome = Pending
    /\ wcPc = "done" =>
        LET name == IF wcPolicy = Omitted THEN "productList" ELSE wcPolicy
        IN  /\ fetchSettled.kind = "value" =>
                /\ wcOutcome.kind = "returned"
                /\ wcOutcome.pair[1] = fetchSettled.value
                /\ wcOutcome.pair[2] = CACHE_POLICIES[name]
                /\ wcOutcome.pair[2].cacheControl = DesignDirective[name]
                /\ consoleErrors = <<>>
            /\ fetchSettled.kind = "error" =>
                /\ wcOutcome.kind = "thrown"
                /\ wcOutcome.error = fetchSettled.error
                /\ consoleErrors = <<<<"Cache fetch error:", fetchSettled.error>>>>
            /\ fetchSettled.kind # "pending"

C10_Witness ==
    /\ wcPc = "done"
    /\ wcPolicy = Omitted
    /\ fetchCalls = 1
    /\ fetchSettled = Error("ECONNRESET")
    /\ wcOutcome = [kind |-> "thrown", error |-> "ECONNRESET"]
    /\ Len(consoleErrors) = 1

-----------------------------------------------------------------------------
(* Claims about two calls of checkConditionalRequest *)

-----------------------------------------------------------------------------
(* Claims about the Navbar *)

\* C11: open starts false and only an activation of the menu button changes
\* it, by flipping it: after any sequence of events open is true exactly when
\* the number of activations so far is odd; in every rendered state the mobile
\* panel is present, aria-expanded is true and the label is 'Close menu' if and
\* only if open is true.
C11_OpenIsParityOfActivations ==
    /\ open <=> (clicks % 2 = 1)
    /\ clicks = 0 => ~open
    /\ view.panel <=> open
    /\ view.ariaExpanded <=> open
    /\ (view.ariaLabel = "Close menu") <=> open
    /\ (view.ariaLabel = "Open menu") <=> ~open

C11_Witness ==
    /\ isMounted
    /\ clicks = 2
    /\ ~open
    /\ ~view.panel
    /\ view.ariaLabel = "Open menu"
    /\ route = "/contact"

====
